---- MODULE Spec2Model ----
(***************************************************************************)
(* Model of accountingcalculatorbot.py: a Telegram bot that launches an    *)
(* external calculator web app and echoes the returned calculation history *)
(* back into the chat, seeding the next launch with a number extracted     *)
(* from that history.                                                      *)
(*                                                                         *)
(* Strings are sequences of characters (one-character TLA+ strings); the   *)
(* fixed reply texts are single tokens.                                    *)
(***************************************************************************)
EXTENDS Naturals, Sequences, FiniteSets

\* ---------------------------------------------------------------- bounds
\* longest calculation history (in characters) enumerated
MaxLen == 3
\* number of updates that arrive in one behaviour
MaxEvents == 2

\* ------------------------------------------------------------ characters
\* a decimal digit outside ASCII (U+0663); Python's \d matches it
ArabicThree == "ARABIC-INDIC DIGIT THREE"

AsciiDigits == {"0", "1", "2", "3", "4", "5", "6", "7", "8", "9"}

\* the characters Python's \d matches in a str pattern: every Unicode decimal digit
DecimalDigits == AsciiDigits \cup {ArabicThree}

\* the characters histories are built from
Chars == {"1", "2", ".", "=", " ", "\n", ArabicThree}

Strings == UNION {[1..k -> Chars] : k \in 0..MaxLen}

\* ------------------------------------------------------- list primitives
RECURSIVE Reverse(_)
\* seq[::-1]
Reverse(s) == IF s = << >> THEN << >> ELSE Append(Reverse(Tail(s)), Head(s))

RECURSIVE split(_, _)
\* str.split(sep): the fields between the separators, empty fields kept
split(s, sep) ==
    IF \A k \in 1..Len(s) : s[k] # sep
    THEN << s >>
    ELSE LET k == CHOOSE k \in 1..Len(s) :
                      s[k] = sep /\ \A m \in 1..(k-1) : s[m] # sep
         IN  << SubSeq(s, 1, k-1) >> \o split(SubSeq(s, k+1, Len(s)), sep)

RECURSIVE join(_, _)
\* sep.join(parts)
join(sep, parts) ==
    IF parts = << >> THEN << >>
    ELSE IF Len(parts) = 1 THEN parts[1]
    ELSE parts[1] \o << sep >> \o join(sep, Tail(parts))

\* ------------------------------------------------------ Result Extractor
\* the character class [\d\.]
InClass(c) == c \in DecimalDigits \cup {"."}

\* `$` read as \Z: the end of the string only
AtDollarEndOnly(s, j) == j = Len(s) + 1

\* where `$` matches without re.MULTILINE: at the end of the string and just
\* before a newline that is the last character. j is the position of the next
\* character to consume (1-based), so Len(s)+1 is the end of the string.
AtDollar(s, j) == \/ j = Len(s) + 1
                  \/ j = Len(s) /\ s[j] = "\n"

\* [\d\.]+ from position i, greedy: the position after the longest run
GreedyEnd(s, i) ==
    CHOOSE j \in i..(Len(s) + 1) :
        /\ \A k \in i..(j-1) : InClass(s[k])
        /\ j = Len(s) + 1 \/ ~InClass(s[j])

\* the ends at which ([\d\.]+)$ matches from i: the run is given back one
\* character at a time until `$` matches
MatchEnds(s, i) == {j \in (i+1)..GreedyEnd(s, i) : AtDollar(s, j)}

Max(S) == CHOOSE x \in S : \A y \in S : y <= x
Min(S) == CHOOSE x \in S : \A y \in S : x <= y

\* re.search(r'([\d\.]+)$', s): the leftmost start at which the pattern matches
re_search(s) ==
    LET starts == {i \in 1..Len(s) : MatchEnds(s, i) # {}}
    IN  IF starts = {} THEN [found |-> FALSE, start |-> 0, end |-> 0]
        ELSE LET i == Min(starts)
             IN  [found |-> TRUE, start |-> i, end |-> Max(MatchEnds(s, i))]

get_math_result(calc_history) ==
    LET match == re_search(calc_history)
    IN  IF match.found
        THEN SubSeq(calc_history, match.start, match.end - 1)
        ELSE << >>

\* ---------------------------------------------------- Launch-Link Builder
CALC_URL == << "https://accountingcalculator-37edb.web.app" >>

\* the caption left without the value
make_calc_keyboard_plain_caption(init_value) ==
    IF init_value # << >>
    THEN [url     |-> CALC_URL \o << "?value=" >> \o init_value,
          caption |-> << "Call calculator" >>]
    ELSE [url |-> CALC_URL, caption |-> << "Call calculator" >>]

make_calc_keyboard(init_value) ==
    IF init_value # << >>
    THEN [url     |-> CALC_URL \o << "?value=" >> \o init_value,
          caption |-> << "Call calculator" >> \o << " with last value=" >> \o init_value]
    ELSE [url |-> CALC_URL, caption |-> << "Call calculator" >>]

\* ------------------------------------------------------------ identities
\* the chat the feedback is forwarded to (environ['ADMIN_CHANT_ID'])
ADMIN_CHANT_ID == "ADMIN"

\* the users who write to the bot; the administrator may be one of them.
\* Chats are private: a message's chat id is its sender's id.
Users == {"U1", ADMIN_CHANT_ID}

full_name(user) == IF user = "U1" THEN "Alice" ELSE "Admin"

\* telegram.User.mention_markdown_v2: [name](tg://user?id=<id>)
mention_markdown_v2(user) == << "[", full_name(user), "](tg://user?id=", user, ")" >>

\* --------------------------------------------------------------- updates
\* the texts of the plain messages that arrive: the four commands, feedback
\* with and without trailing text, an unknown command and ordinary text
MessageTexts == { << "/start" >>, << "/help" >>, << "/calc" >>,
                  << "/feedback" >>, << "/feedback", " ", "Hello admin" >>,
                  << "/settings" >>, << "hello" >> }

\* the histories the web app sends back in the dispatcher's specification
SamplePayloads == { << "1", "=", "1", "\n", "1", "=", "2" >>,
                    << "1", "=", "2", "\n" >>,
                    << "1", "=", "1", " " >>,
                    << "2", "." >> }

\* an update: a text message, a web_app_data or connected_website service
\* message, or anything else (a photo, a poll answer, ...)
UpdatesWith(payloads) ==
    [user : Users, kind : {"message"}, text : MessageTexts, data : {<< >>}]
    \cup [user : Users, kind : {"web_app_data"}, text : {<< >>}, data : payloads]
    \cup [user : Users, kind : {"connected_website", "other"},
          text : {<< >>}, data : {<< >>}]

WithId(u, id) ==
    [update_id |-> id, user |-> u.user, kind |-> u.kind, text |-> u.text, data |-> u.data]

\* ----------------------------------------------------------------- state
VARIABLES
    update_queue,   \* the updates fetched by polling and not yet dispatched
    next_id,        \* how many updates have arrived
    outbox,         \* the messages the Bot API accepted, in sending order
    log,            \* the records written through `logger`, in order
    handled,        \* per dispatched update: the callbacks run and the failed send
    call            \* a direct call of one of the two pure functions

vars == << update_queue, next_id, outbox, log, handled, call >>

\* ------------------------------------------------------- handler effects
NoMarkup == [url |-> << >>, caption |-> << >>]

\* message.reply_text / reply_markdown_v2 / bot.send_message
Send(chat_id, text, markup) ==
    [op |-> "send", chat_id |-> chat_id, text |-> text,
     url |-> markup.url, caption |-> markup.caption]

\* logger.info
Info(text) ==
    [op |-> "log", chat_id |-> "", text |-> text, url |-> << >>, caption |-> << >>]

\* each callback is the sequence of its sends and log calls, in program order

start_cmd(update) ==
    << Send(update.user,
            << "Hi " >> \o mention_markdown_v2(update.user) \o << "WELCOME_TEXT" >>,
            make_calc_keyboard(<< >>)),
       Info(<< "Start - " >> \o mention_markdown_v2(update.user)) >>

help_cmd(update) ==
    << Send(update.user, << "HELP_TEXT" >>, make_calc_keyboard(<< >>)),
       Info(<< "Help - " >> \o mention_markdown_v2(update.user)) >>

\* the feedback sent back to the chat it came from
feedback_cmd_to_sender(update) ==
    << Send(update.user,
            mention_markdown_v2(update.user) \o << ", thank you\n" >>,
            make_calc_keyboard(<< >>)),
       Send(update.user,
            << "Feedback from " >> \o mention_markdown_v2(update.user)
                \o << ", chat_id:", update.user, ":\n" >> \o update.text,
            NoMarkup) >>

feedback_cmd(update) ==
    << Send(update.user,
            mention_markdown_v2(update.user) \o << ", thank you\n" >>,
            make_calc_keyboard(<< >>)),
       Send(ADMIN_CHANT_ID,
            << "Feedback from " >> \o mention_markdown_v2(update.user)
                \o << ", chat_id:", update.user, ":\n" >> \o update.text,
            NoMarkup) >>

\* the value of the last seeded link sent to the user, kept between updates
LastSeed(user) ==
    LET seeded == {k \in 1..Len(outbox) :
                       /\ outbox[k].chat_id = user
                       /\ Len(outbox[k].url) > 2
                       /\ outbox[k].url[2] = "?value="}
    IN  IF seeded = {} THEN << >>
        ELSE SubSeq(outbox[Max(seeded)].url, 3, Len(outbox[Max(seeded)].url))

calc_button_cmd_last_value(update) ==
    << Info(<< "Calc_button - " >> \o mention_markdown_v2(update.user)),
       Send(update.user, << "Press the button to call Web-Calculator" >>,
            make_calc_keyboard(LastSeed(update.user))) >>

calc_button_cmd(update) ==
    << Info(<< "Calc_button - " >> \o mention_markdown_v2(update.user)),
       Send(update.user, << "Press the button to call Web-Calculator" >>,
            make_calc_keyboard(<< >>)) >>

\* the reversal with the empty lines dropped
reversed_history_no_empty_lines(data) ==
    join("\n", SelectSeq(Reverse(split(data, "\n")), LAMBDA line : line # << >>))

\* '\n'.join(calc_history.split('\n')[::-1])
reversed_history(data) == join("\n", Reverse(split(data, "\n")))

web_app_data(update) ==
    LET calc_history == reversed_history(update.data)
        last_value   == get_math_result(calc_history)
    IN  << Info(<< "Web_app_data - " >> \o mention_markdown_v2(update.user)),
           Send(update.user, calc_history, make_calc_keyboard(last_value)) >>

\* the notification answered with a message
connected_website_replies(update) ==
    << Info(<< "Connected_website - " >> \o mention_markdown_v2(update.user)),
       Send(update.user, << "Press the button to call Web-Calculator" >>,
            make_calc_keyboard(<< >>)) >>

connected_website(update) ==
    << Info(<< "Connected_website - " >> \o mention_markdown_v2(update.user)) >>

\* ------------------------------------------------------------ dispatcher
\* dispatcher.add_handler(...), in registration order (all in group 0)
handlers ==
    << [type |-> "CommandHandler", filter |-> "/start",    callback |-> "start_cmd"],
       [type |-> "CommandHandler", filter |-> "/help",     callback |-> "help_cmd"],
       [type |-> "CommandHandler", filter |-> "/calc",     callback |-> "calc_button_cmd"],
       [type |-> "CommandHandler", filter |-> "/feedback", callback |-> "feedback_cmd"],
       [type |-> "MessageHandler", filter |-> "web_app_data",
        callback |-> "web_app_data"],
       [type |-> "MessageHandler", filter |-> "connected_website",
        callback |-> "connected_website"] >>

\* a CommandHandler that takes every text message, whatever its command
check_update_any_text(handler, update) ==
    IF handler.type = "CommandHandler"
    THEN update.kind = "message" /\ update.text # << >>
    ELSE update.kind = handler.filter

\* Handler.check_update: a CommandHandler takes a text message whose first
\* token is its command, a MessageHandler the messages its filter accepts
check_update(handler, update) ==
    IF handler.type = "CommandHandler"
    THEN update.kind = "message" /\ update.text # << >>
         /\ Head(update.text) = handler.filter
    ELSE update.kind = handler.filter

\* Dispatcher.process_update: within the group the first handler whose
\* check_update accepts the update runs, and no other
process_update(update) ==
    LET matching == {i \in 1..Len(handlers) : check_update(handlers[i], update)}
    IN  IF matching = {} THEN << >> ELSE << handlers[Min(matching)].callback >>

\* the callback registered under a name
Callback(name, update) ==
    CASE name = "start_cmd"         -> start_cmd(update)
      [] name = "help_cmd"          -> help_cmd(update)
      [] name = "calc_button_cmd"   -> calc_button_cmd(update)
      [] name = "feedback_cmd"      -> feedback_cmd(update)
      [] name = "web_app_data"      -> web_app_data(update)
      [] name = "connected_website" -> connected_website(update)

\* the sends and log calls the callbacks of an update make, in order
Effects(callbacks, update) ==
    IF callbacks = << >> THEN << >> ELSE Callback(callbacks[1], update)

NumSends(effects) == Cardinality({k \in 1..Len(effects) : effects[k].op = "send"})

\* A send is a request to the Bot API and raises when the request fails; the
\* callbacks catch nothing, so the exception ends the callback there.
\* failAt = 0: no send fails; failAt = n: the n-th send raises. What was done
\* before the failing send stays done.
Performed(effects, failAt) ==
    IF failAt = 0 THEN effects
    ELSE LET k == CHOOSE k \in 1..Len(effects) :
                      /\ effects[k].op = "send"
                      /\ NumSends(SubSeq(effects, 1, k)) = failAt
         IN  SubSeq(effects, 1, k - 1)

Tagged(effects, update, op) ==
    LET at == SelectSeq(effects, LAMBDA e : e.op = op)
    IN  [k \in 1..Len(at) |->
            [update |-> update, chat_id |-> at[k].chat_id, text |-> at[k].text,
             url |-> at[k].url, caption |-> at[k].caption]]

\* the newest update taken first
QueueGetNewest(queue) == Len(queue)

\* the position in update_queue of the update the dispatcher takes next:
\* Queue.get() takes the oldest
QueueGet(queue) == 1

Remove(queue, i) == SubSeq(queue, 1, i - 1) \o SubSeq(queue, i + 1, Len(queue))

\* --------------------------------------------------------------- actions
Idle == [fn |-> "none", arg |-> << >>, ret |-> << >>]

Init ==
    /\ update_queue = << >>
    /\ next_id = 0
    /\ outbox = << >>
    /\ log = << >>
    /\ handled = << >>
    /\ call = Idle

\* updater.start_polling(): the polling thread puts a fetched update on the queue
Arrive ==
    /\ next_id < MaxEvents
    /\ \E u \in UpdatesWith(SamplePayloads) :
           update_queue' = Append(update_queue, WithId(u, next_id + 1))
    /\ next_id' = next_id + 1
    /\ UNCHANGED << outbox, log, handled, call >>

\* the dispatcher thread takes one update and runs its handler to the end
\* (no handler is registered with run_async) before it takes the next
Dispatch ==
    /\ update_queue # << >>
    /\ LET i         == QueueGet(update_queue)
           update    == update_queue[i]
           callbacks == process_update(update)
           effects   == Effects(callbacks, update)
       IN  \E failAt \in 0..NumSends(effects) :
               LET done == Performed(effects, failAt)
               IN  /\ outbox' = outbox \o Tagged(done, update, "send")
                   /\ log' = log \o Tagged(done, update, "log")
                   /\ handled' = Append(handled,
                          [update |-> update, callbacks |-> callbacks,
                           failAt |-> failAt])
                   /\ update_queue' = Remove(update_queue, i)
    /\ UNCHANGED << next_id, call >>

Next == Arrive \/ Dispatch

\* the bot: updates arrive and are dispatched
Spec == Init /\ [][Next]_vars

\* one web_app_data update carrying any history of up to MaxLen characters
InitWebApp ==
    /\ \E user \in Users, data \in Strings \ {<< >>} :
           update_queue = << [update_id |-> 1, user |-> user, kind |-> "web_app_data",
                              text |-> << >>, data |-> data] >>
    /\ next_id = 1
    /\ outbox = << >>
    /\ log = << >>
    /\ handled = << >>
    /\ call = Idle

SpecWebApp == InitWebApp /\ [][Dispatch]_vars

\* the two pure functions applied to any string of up to MaxLen characters
InitCall ==
    /\ update_queue = << >>
    /\ next_id = 0
    /\ outbox = << >>
    /\ log = << >>
    /\ handled = << >>
    /\ \E arg \in Strings : call = [fn |-> "pending", arg |-> arg, ret |-> << >>]

CallGetMathResult ==
    /\ call.fn = "pending"
    /\ call' = [fn |-> "get_math_result", arg |-> call.arg,
                ret |-> << get_math_result(call.arg) >>]
    /\ UNCHANGED << update_queue, next_id, outbox, log, handled >>

CallMakeCalcKeyboard ==
    /\ call.fn = "pending"
    /\ call' = [fn |-> "make_calc_keyboard", arg |-> call.arg,
                ret |-> << make_calc_keyboard(call.arg) >>]
    /\ UNCHANGED << update_queue, next_id, outbox, log, handled >>

NextCall == CallGetMathResult \/ CallMakeCalcKeyboard

SpecCall == InitCall /\ [][NextCall]_vars

\* ================================================================ claims
\* the messages sent, and the records logged, while an update was handled
SentFor(id) == SelectSeq(outbox, LAMBDA e : e.update.update_id = id)
LoggedFor(id) == SelectSeq(log, LAMBDA e : e.update.update_id = id)

\* part occurs in text as a contiguous piece
Contains(text, part) ==
    \E k \in 0..(Len(text) - Len(part)) : SubSeq(text, k + 1, k + Len(part)) = part

\* the link carries a value parameter
HasValue(url) == \E k \in 1..Len(url) : url[k] = "?value="

\* the link that carries value v
SeededUrl(v) == CALC_URL \o << "?value=" >> \o v

\* the longest piece of s that ends s and consists of characters of class
RunAtEnd(s, class) ==
    LET n == Max({k \in 0..Len(s) : \A m \in (Len(s) - k + 1)..Len(s) : s[m] \in class})
    IN  SubSeq(s, Len(s) - n + 1, Len(s))

\* the lines of a newline-delimited text: the pieces between its newlines
NewlinesIn(s) == {k \in 1..Len(s) : s[k] = "\n"}
LineCount(s) == Cardinality(NewlinesIn(s)) + 1
Line(s, i) ==
    LET before == {k \in NewlinesIn(s) : Cardinality({m \in NewlinesIn(s) : m <= k}) = i - 1}
        after  == {k \in NewlinesIn(s) : Cardinality({m \in NewlinesIn(s) : m <= k}) = i}
        from   == IF before = {} THEN 1 ELSE Max(before) + 1
        to     == IF after = {} THEN Len(s) ELSE Max(after) - 1
    IN  SubSeq(s, from, to)

\* ------------------------------------------------------------------- C1
\* the decimal numeral that ends a line: its longest final piece of digits
\* and decimal points, when that piece has a digit
NumeralAtEnd(line) == RunAtEnd(line, DecimalDigits \cup {"."})
EndsInNumeral(line) ==
    \E k \in 1..Len(NumeralAtEnd(line)) : NumeralAtEnd(line)[k] \in DecimalDigits

\* C1: whenever a web-app payload's history (oldest entry first) has a most
\* recent, i.e. final, line that ends in a decimal numeral, the reply's launch
\* link carries value=<that numeral>.
C1_SeededWithMostRecent ==
    \A n \in 1..Len(outbox) :
        LET e      == outbox[n]
            recent == Line(e.update.data, LineCount(e.update.data))
        IN  (e.update.kind = "web_app_data" /\ EndsInNumeral(recent))
                => e.url = SeededUrl(NumeralAtEnd(recent))

\* ------------------------------------------------------------------- C2
\* C2: the body of the reply to a web-app payload has exactly the payload's
\* lines in reverse order: as many lines, line i of the reply is line n+1-i
\* of the payload (1-based), and reversing the reply's lines again gives the
\* payload back.
C2_ReplyIsReversedLines ==
    \A n \in 1..Len(outbox) :
        LET e    == outbox[n]
            data == e.update.data
            c    == LineCount(data)
        IN  e.update.kind = "web_app_data" =>
                /\ LineCount(e.text) = c
                /\ Len(e.text) = Len(data)
                /\ \A i \in 1..c : Line(e.text, i) = Line(data, c + 1 - i)
                /\ join("\n", Reverse([i \in 1..c |-> Line(e.text, i)])) = data

\* a payload of several lines, not all alike, was answered
C2_Witness ==
    \E n \in 1..Len(outbox) :
        /\ outbox[n].update.kind = "web_app_data"
        /\ LineCount(outbox[n].update.data) >= 2
        /\ outbox[n].text # outbox[n].update.data

\* ------------------------------------------------------------------- C3
\* C3 as stated: get_math_result returns the longest run of characters from
\* [0-9.] that ends the string, and nothing when the string does not end with
\* a character from [0-9.] (as when it ends with whitespace or a newline).
C3_RunOfAsciiAtEnd ==
    call.fn = "get_math_result" =>
        call.ret = << RunAtEnd(call.arg, AsciiDigits \cup {"."}) >>

\* the string without the one newline that may end it
WithoutFinalNewline(s) ==
    IF s # << >> /\ s[Len(s)] = "\n" THEN SubSeq(s, 1, Len(s) - 1) ELSE s

\* C3 as amended: get_math_result returns the longest run of decimal digits
\* (any Unicode decimal digit) and decimal points that ends the string, one
\* final newline, if the string ends with one, not counted; it returns nothing
\* exactly when that run is empty.
C3_RunBeforeFinalNewline ==
    call.fn = "get_math_result" =>
        call.ret = << RunAtEnd(WithoutFinalNewline(call.arg), DecimalDigits \cup {"."}) >>

\* a number followed by one final newline was extracted
C3_Witness ==
    /\ call.fn = "get_math_result"
    /\ call.arg # << >>
    /\ call.arg[Len(call.arg)] = "\n"
    /\ call.ret # << << >> >>

\* ------------------------------------------------------------------- C4
\* C4: for a present (non-empty) resume value v, make_calc_keyboard gives the
\* base URL followed by exactly ?value=v and a label that contains v; for an
\* absent one, the base URL unmodified and the fixed caption with no suffix.
\* The result is a function of the argument alone.
C4_LaunchLink ==
    call.fn = "make_calc_keyboard" =>
        LET v    == call.arg
            link == call.ret[1]
        IN  /\ v # << >> =>
                /\ link.url = CALC_URL \o << "?value=" >> \o v
                /\ Len(link.caption) > 1
                /\ link.caption[1] = "Call calculator"
                /\ Contains(Tail(link.caption), v)
            /\ v = << >> =>
                /\ link.url = CALC_URL
                /\ link.caption = << "Call calculator" >>

\* a link was built for a present value
C4_Witness ==
    /\ call.fn = "make_calc_keyboard"
    /\ Len(call.arg) >= 2
    /\ HasValue(call.ret[1].url)

\* ------------------------------------------------------------------- C5
\* the variant of an update, read off its shape
Variant(update) ==
    CASE update.kind = "message" /\ Head(update.text) = "/start"    -> "start"
      [] update.kind = "message" /\ Head(update.text) = "/help"     -> "help"
      [] update.kind = "message" /\ Head(update.text) = "/calc"     -> "calc"
      [] update.kind = "message" /\ Head(update.text) = "/feedback" -> "feedback"
      [] update.kind = "web_app_data"                               -> "payload"
      [] update.kind = "connected_website"                          -> "opened"
      [] OTHER                                                      -> "unrecognized"

\* the handler of each variant
HandlerOf(variant) ==
    CASE variant = "start"    -> << "start_cmd" >>
      [] variant = "help"     -> << "help_cmd" >>
      [] variant = "calc"     -> << "calc_button_cmd" >>
      [] variant = "feedback" -> << "feedback_cmd" >>
      [] variant = "payload"  -> << "web_app_data" >>
      [] variant = "opened"   -> << "connected_website" >>
      [] OTHER                -> << >>

SameEvent(u, v) ==
    u.user = v.user /\ u.kind = v.kind /\ u.text = v.text /\ u.data = v.data

\* C5: every update is handled by at most one handler, the one of its variant
\* and no other; an update of no variant reaches no handler and causes nothing
\* to be sent or logged; the same event is routed the same way each time.
C5_OneHandlerPerEvent ==
    \A n \in 1..Len(handled) :
        LET h == handled[n]
        IN  /\ Len(h.callbacks) <= 1
            /\ h.callbacks = HandlerOf(Variant(h.update))
            /\ Variant(h.update) = "unrecognized" =>
                   /\ SentFor(h.update.update_id) = << >>
                   /\ LoggedFor(h.update.update_id) = << >>
            /\ \A m \in 1..Len(handled) :
                   SameEvent(h.update, handled[m].update)
                       => h.callbacks = handled[m].callbacks

\* a command and an unrecognized update have both been dispatched
C5_Witness ==
    /\ \E n \in 1..Len(handled) : Variant(handled[n].update) = "calc"
    /\ \E n \in 1..Len(handled) : Variant(handled[n].update) = "unrecognized"

\* ------------------------------------------------------------------- C6
\* the text that follows the command token
Trailing(update) == Tail(update.text)

SendsOf(variant) ==
    CASE variant \in {"start", "help", "calc", "payload"} -> 1
      [] variant = "feedback"                              -> 2
      [] OTHER                                             -> 0

\* the number of records each variant's handler logs
LogsOf(variant) ==
    CASE variant \in {"start", "help", "calc", "payload", "opened"} -> 1
      [] OTHER                                                       -> 0

Replies(id) ==
    LET sent == SentFor(id)
    IN  [k \in 1..Len(sent) |->
            << sent[k].chat_id, sent[k].text, sent[k].url, sent[k].caption >>]

\* C8: the reply to an event depends on that event alone: two events alike,
\* handled with the same sends accepted, get the same replies whatever was
\* handled before them; a link with a value parameter is sent only in reply to
\* a web-app payload and its value is a piece of that reply's own body; the
\* replies to start, help and calc carry the bare link.
C8_RepliesDependOnEventOnly ==
    /\ \A n, m \in 1..Len(handled) :
           (SameEvent(handled[n].update, handled[m].update)
                /\ handled[n].failAt = handled[m].failAt)
               => Replies(handled[n].update.update_id)
                      = Replies(handled[m].update.update_id)
    /\ \A k \in 1..Len(outbox) :
           LET e == outbox[k]
           IN  /\ HasValue(e.url) =>
                      /\ Variant(e.update) = "payload"
                      /\ \E v \in {SubSeq(e.text, a, b) : a, b \in 1..Len(e.text)} :
                             e.url = SeededUrl(v)
               /\ (Variant(e.update) \in {"start", "help", "calc"}) => e.url = CALC_URL

\* a calc command was answered after a payload had been answered with a
\* seeded link
C8_Witness ==
    \E k, m \in 1..Len(outbox) :
        /\ k < m
        /\ HasValue(outbox[k].url)
        /\ Variant(outbox[m].update) = "calc"
        /\ outbox[m].update.user = outbox[k].update.user

\* ------------------------------------------------------------------- C9
\* C9: when a send of a handler fails, nothing that handler sent is observable;
\* for feedback, the acknowledgment never reaches the sender while the forward
\* to the administrative chat fails.
C9_AllOrNothing ==
    \A n \in 1..Len(handled) :
        handled[n].failAt # 0 => SentFor(handled[n].update.update_id) = << >>

\* ------------------------------------------------------------------ C10
\* C10: the messages are sent in the order in which their sender's updates
\* arrived: a message produced for a later update of a sender is never sent
\* before a message produced for an earlier update of the same sender.
C10_RepliesInArrivalOrder ==
    \A k, m \in 1..Len(outbox) :
        (k < m /\ outbox[k].update.user = outbox[m].update.user)
            => outbox[k].update.update_id <= outbox[m].update.update_id

\* two updates of one sender have both been answered
C10_Witness ==
    \E k, m \in 1..Len(outbox) :
        /\ outbox[k].update.user = outbox[m].update.user
        /\ outbox[k].update.update_id < outbox[m].update.update_id

====
